---- MODULE Spec2Model ----
(***************************************************************************)
(* Verification model of the voter authentication flow:                    *)
(*   auth_handlers.py        verify_credentials, verify_otp, verify_voter  *)
(*   facial_auth_server.py   get_voter_key, register_voter,                *)
(*                           verify_voter_by_face, verify_voter, add_voter,*)
(*                           list_voters, compare_face_for_vote,           *)
(*                           FaceVerification.verify_face, verify_face,    *)
(*                           register_face, face_match_endpoint,           *)
(*                           get_groq_embedding, api_auth_required         *)
(*   image_manager.py        load_metadata, save_metadata, add_user        *)
(*                                                                         *)
(* Time is counted in whole seconds.  The module-level names the handlers  *)
(* read (VERIFICATION_THRESHOLD, TEMP_DIR, IMAGES_DIR, GROQ_API_KEY) are   *)
(* taken to be the                                                         *)
(* app.config entries of the same name, and both verify-voter entry points *)
(* are taken to be routed.  USE_GROQ_API is False as configured, except in *)
(* the provider specification, which sets it to look at the Groq call.     *)
(***************************************************************************)
EXTENDS Integers, Sequences, FiniteSets, TLC

----------------------------------------------------------------------------
(* Bounds of the model *)

MaxNow == 1201
MaxRefs == 4
MaxRequests == 4
MaxImages == 2

(* the clock advances by one of these amounts (seconds) *)
Deltas == {600, 601}

----------------------------------------------------------------------------
(* Program constants *)

OTP_LEN == 6
OTP_WINDOW_MINUTES == 10

(* mutant of THRESHOLD_NUM: a threshold of 0.9 *)
ThresholdNine == 3 * 3

(* app.config['VERIFICATION_THRESHOLD'] = 0.6, as THRESHOLD_NUM / THRESHOLD_DEN *)
THRESHOLD_NUM == 6
THRESHOLD_DEN == 10

(* face_recognition.compare_faces(..., tolerance=0.6), as a fraction *)
FACE_TOLERANCE_NUM == 6
FACE_TOLERANCE_DEN == 10

(* requests.post(api_url, ..., timeout=15), in seconds *)
FACE_API_TIMEOUT == 15

(* the number of components of a face embedding *)
EMBEDDING_DIM == 128

(* app.config['FACEPLUSPLUS_CONFIDENCE_THRESHOLD'], with VERIFICATION_THRESHOLD *)
(* unset in the environment                                                    *)
FACEPLUSPLUS_CONFIDENCE_THRESHOLD == 75

----------------------------------------------------------------------------
(* Inputs *)

Empty == <<>>

ID1 == [aadhar |-> <<"1","2","3","4","5","6","7","8","9","0","1","2">>,
        voter_id |-> <<"A","B","C","1">>]
ID2 == [aadhar |-> <<"9","8","7","6","5","4","3","2","1","0","9","8">>,
        voter_id |-> <<"X","Y","Z","7">>]
Identities == {ID1, ID2}

Mobile == <<"5","5","5">>

Digits == 0..9
(* ''.join(random.choices('0123456789', k=6)): two of the codes it can draw, *)
(* "123456" and "000000"                                                     *)
Codes == {[j \in 1..OTP_LEN |-> j], [j \in 1..OTP_LEN |-> 0]}
SuppliedCodes == Codes \cup {<<9,9,9,9,9,9>>}

Embeddings == {<<1,0>>, <<0,1>>}

(* outputs of the embedding model (its last layer is a relu: no component is  *)
(* negative, and all of them can be zero).  Against <<1,1,1,1>> the second    *)
(* scores 0.82 and the third 0.5; <<3,4,0,0>> scores 0.6 against <<1,0,0,0>>  *)
FaceEmbeddings == {<<1,1,1,1>>, <<20,12,9,0>>, <<1,0,0,0>>, <<3,4,0,0>>, <<0,0,0,0>>}

BadImage == [kind |-> "undecodable", emb |-> <<0,0>>]
NoFaceImage == [kind |-> "noface", emb |-> <<0,0>>]
FaceImage(e) == [kind |-> "face", emb |-> e]
Images == {BadImage, NoFaceImage} \cup {FaceImage(e) : e \in Embeddings}

----------------------------------------------------------------------------
(* State *)

VARIABLES
    now,             \* datetime.now(), in seconds
    otp_storage,     \* auth_handlers.otp_storage: voter_key -> reference to a challenge dict
    heap,            \* the challenge dicts: reference -> {otp, created_at, verified}
    voter_database,  \* facial_auth_server.voter_database: voter_key -> record
    resp,            \* the response of the last completed request
    th,              \* the request each server thread is serving, and where it is
    known_face_encodings, \* FaceVerification.known_face_encodings: aadhar -> encoding
    reference_embedding,  \* facial_auth_server.reference_embedding, Empty for None
    voter_verification,   \* the table voter_verification of DB_PATH: aadhar -> row
    metadata,             \* image_manager: the file METADATA_FILE; valid when it parses
                          \* as JSON, and then data is its content, user_id -> entry
    hist             \* history: otp_ok, the keys for which a verify_otp has succeeded;
                     \* last_issued, the challenge verify_credentials issued last per key;
                     \* first_seen, the number of first-seen registrations;
                     \* requests, the number of requests the threads have accepted

vars == <<now, otp_storage, heap, voter_database, resp, th, known_face_encodings,
         reference_embedding, voter_verification, metadata, hist>>

----------------------------------------------------------------------------
(* Pure helpers *)

Min(a, b) == IF a <= b THEN a ELSE b

(* hashlib.sha256(...).hexdigest(): an injective tag of the hashed string *)
SHA256(s) == <<"sha256", s>>

(* mutant of get_voter_key: the hashed string is salted with the time of the call *)
SaltedVoterKey(aadhar, voter_id) == SHA256(aadhar \o <<":">> \o voter_id \o <<ToString(now)>>)

(* hashlib.sha256(f"{aadhar}:{voter_id}".encode()).hexdigest() *)
get_voter_key(aadhar, voter_id) == SHA256(aadhar \o <<":">> \o voter_id)

Keys == {get_voter_key(i.aadhar, i.voter_id) : i \in Identities}
NoKey == <<"none", Empty>>

(* aadhar[:4] + "****" + aadhar[-4:] *)
MaskAadhar(aadhar) ==
    SubSeq(aadhar, 1, Min(4, Len(aadhar))) \o <<"*","*","*","*">>
        \o SubSeq(aadhar, Len(aadhar) - Min(4, Len(aadhar)) + 1, Len(aadhar))

(* the sum of a[n] * b[n] for n in lo..hi, by halves *)
RECURSIVE DotRange(_, _, _, _)
DotRange(a, b, lo, hi) ==
    IF lo > hi THEN 0
    ELSE IF lo = hi THEN a[lo] * b[lo]
    ELSE LET mid == (lo + hi) \div 2
         IN  DotRange(a, b, lo, mid) + DotRange(a, b, mid + 1, hi)

(* np.dot *)
Dot(a, b) == DotRange(a, b, 1, Min(Len(a), Len(b)))
NormSq(a) == Dot(a, a)

(* mutant of ShapesNotAligned: np.dot applied to the common prefix *)
ShapesTruncated(embedding1, embedding2) == FALSE

(* np.dot raises ValueError for two vectors of different lengths *)
ShapesNotAligned(embedding1, embedding2) == Len(embedding1) # Len(embedding2)

(* mutant of compute_similarity: dot / (norm1 * norm1) *)
AsymmetricSimilarity(embedding1, embedding2) ==
    [dot |-> Dot(embedding1, embedding2),
     nn  |-> NormSq(embedding1) * NormSq(embedding1)]

(* dot / (norm1 * norm2), kept exact as dot / sqrt(nn) *)
compute_similarity(embedding1, embedding2) ==
    [dot |-> Dot(embedding1, embedding2),
     nn  |-> NormSq(embedding1) * NormSq(embedding2)]

One == [dot |-> 1, nn |-> 1]

(* mutant of MeetsThreshold: similarity > VERIFICATION_THRESHOLD *)
MeetsThresholdStrict(similarity) ==
    /\ similarity.nn > 0
    /\ similarity.dot >= 0
    /\ similarity.dot * similarity.dot * THRESHOLD_DEN * THRESHOLD_DEN
          > THRESHOLD_NUM * THRESHOLD_NUM * similarity.nn

(* similarity >= VERIFICATION_THRESHOLD; a 0/0 similarity is NaN, and every *)
(* comparison with NaN is false                                             *)
MeetsThreshold(similarity) ==
    /\ similarity.nn > 0
    /\ similarity.dot >= 0
    /\ similarity.dot * similarity.dot * THRESHOLD_DEN * THRESHOLD_DEN
          >= THRESHOLD_NUM * THRESHOLD_NUM * similarity.nn

(* mutant of extract_face_from_image: every image is taken to hold a face *)
ExtractAnyFace(image_data) == [face |-> image_data, error |-> ""]

(* extract_face_from_image: <<face, error>> *)
extract_face_from_image(image_data) ==
    CASE image_data.kind = "undecodable" -> [face |-> image_data, error |-> "Failed to decode image data"]
      [] image_data.kind = "noface" -> [face |-> image_data, error |-> "No face detected in the image"]
      [] OTHER -> [face |-> image_data, error |-> ""]

(* mutant of get_face_embedding: one embedding for every face *)
ConstantEmbedding(face_img) == <<1, 0>>

(* get_face_embedding with the local model: the embedding of the face *)
get_face_embedding(face_img) == face_img.emb

----------------------------------------------------------------------------
(* Values of the state *)

EmptyMap == [x \in {} |-> 0]

(* the answer of the Face++ compare API; NoAnswer when none was received *)
NoAnswer == [kind |-> "none", has_confidence |-> FALSE, confidence |-> 0, error_message |-> "", embedding_is_list |-> TRUE, embedding |-> Empty]

NoDetails ==
    [kind |-> "absent", match |-> FALSE, similarity |-> [dot |-> 0, nn |-> 0],
     threshold |-> "absent", voter_id |-> Empty, newly_registered |-> "absent", text |-> "",
     confidence |-> 0, api_response |-> NoAnswer, distance_sq |-> 0]

Threads == {1, 2}

(* a thread that serves no request *)
Idle == [pc |-> "idle", aadhar |-> Empty, voter_id |-> Empty, otp |-> Empty,
         image |-> NoFaceImage, provider_ok |-> TRUE, ref |-> 0,
         found |-> FALSE, verified |-> FALSE, details |-> NoDetails, answer |-> NoAnswer]

Refs == 1..MaxRefs
Free == [otp |-> Empty, created_at |-> 0, verified |-> FALSE]

(* mutant of Put: d.setdefault(k, v), an existing entry is kept *)
PutIfAbsent(d, k, v) ==
    IF k \in DOMAIN d THEN d
    ELSE [x \in (DOMAIN d) \cup {k} |-> IF x = k THEN v ELSE d[x]]

(* mutant of Put: the value is written under every key of the dict *)
PutUnderEveryKey(d, k, v) == [x \in (DOMAIN d) \cup {k} |-> v]

(* d[k] = v *)
Put(d, k, v) == [x \in (DOMAIN d) \cup {k} |-> IF x = k THEN v ELSE d[x]]

(* the reference of a newly created dict: one that no live dict has *)
NewRef(h) == CHOOSE r \in Refs : h[r] = Free /\ \A q \in Refs : h[q] = Free => r <= q

(* a challenge dict no variable refers to any more is gone *)
Collect(h, store, threads) ==
    LET held == {store[k] : k \in DOMAIN store} \cup {threads[t].ref : t \in DOMAIN threads}
    IN  [r \in Refs |-> IF r \in held THEN h[r] ELSE Free]

----------------------------------------------------------------------------
(* Responses *)

TextDetails(text) == [NoDetails EXCEPT !.kind = "text", !.text = text]

BaseResp(op, key) ==
    [op |-> op, key |-> key, status |-> 200, error |-> "", verified |-> "absent",
     success |-> "absent", found_in_db |-> "absent", otp |-> Empty,
     required_step |-> "", details |-> NoDetails, verification_id |-> FALSE,
     pre_verified |-> FALSE, voters |-> {}]

ErrorResp(op, key, status, error) ==
    [BaseResp(op, key) EXCEPT !.status = status, !.error = error]

(* the except-branch of every handler: "Server error: ..." with status 500 *)
ServerError(op, key) == ErrorResp(op, key, 500, "Server error")

(* the except-branch after np.dot has raised: "Server error: shapes (m,) and *)
(* (n,) not aligned: ..."                                                    *)
ShapesError(op, key) == ErrorResp(op, key, 500, "Server error: shapes not aligned")

GateError == "OTP verification required before face verification"

(* a handler that returns without writing to either store; threads is what *)
(* the server's threads are doing once it has returned                     *)
ReplyIn(r, threads) ==
    /\ resp' = r
    /\ th' = threads
    /\ UNCHANGED <<voter_verification, metadata, now, known_face_encodings, reference_embedding, otp_storage, heap, voter_database, hist>>

Reply(r) == ReplyIn(r, th)

(* otp_storage.get(voter_key): the challenge stored under the key, Free if none *)
StoredChallenge(store, h, voter_key) ==
    IF voter_key \in DOMAIN store THEN h[store[voter_key]] ELSE Free

WasVerified(voter_key) == StoredChallenge(otp_storage, heap, voter_key).verified

----------------------------------------------------------------------------
(* auth_handlers.verify_credentials *)

NewChallenge(otp, t) == [otp |-> otp, created_at |-> t, verified |-> FALSE]

(* mutant of verify_credentials: the challenge is issued before, and *)
(* whatever, the fields are checked                                  *)
VerifyCredentialsUnvalidated(has_data, aadhar, voter_id, mobile) ==
    LET voter_key == get_voter_key(aadhar, voter_id)
        ref == NewRef(heap)
    IN  /\ \E otp \in Codes :
            /\ otp_storage' = Put(otp_storage, voter_key, ref)
            /\ heap' = Collect([heap EXCEPT ![ref] = NewChallenge(otp, now)],
                               otp_storage', th)
            /\ resp' = [BaseResp("verify_credentials", voter_key) EXCEPT
                            !.success = "true", !.otp = otp]
        /\ hist' = [hist EXCEPT !.last_issued = Put(@, voter_key, ref)]
        /\ UNCHANGED <<voter_verification, metadata, now, known_face_encodings, reference_embedding, voter_database, th>>

verify_credentials(has_data, aadhar, voter_id, mobile) ==
    LET op == "verify_credentials" IN
    IF ~has_data THEN Reply(ErrorResp(op, NoKey, 400, "No data provided"))
    ELSE IF aadhar = Empty THEN Reply(ErrorResp(op, NoKey, 400, "Aadhar number is required"))
    ELSE IF voter_id = Empty THEN Reply(ErrorResp(op, NoKey, 400, "Voter ID is required"))
    ELSE IF mobile = Empty THEN Reply(ErrorResp(op, NoKey, 400, "Mobile number is required"))
    ELSE
        LET voter_key == get_voter_key(aadhar, voter_id)
            found_in_db == voter_key \in DOMAIN voter_database
            ref == NewRef(heap)
        IN  /\ \E otp \in Codes :
                /\ otp_storage' = Put(otp_storage, voter_key, ref)
                /\ heap' = Collect([heap EXCEPT ![ref] = NewChallenge(otp, now)],
                                   otp_storage', th)
                /\ resp' = [BaseResp(op, voter_key) EXCEPT
                                !.success = "true",
                                !.found_in_db = IF found_in_db THEN "true" ELSE "false",
                                !.otp = otp,
                                !.pre_verified = WasVerified(voter_key)]
            /\ hist' = [hist EXCEPT !.last_issued = Put(@, voter_key, ref)]
            /\ UNCHANGED <<voter_verification, metadata, now, known_face_encodings, reference_embedding, voter_database, th>>

----------------------------------------------------------------------------
(* auth_handlers.verify_otp *)

(* mutant of Expired: the window closes at exactly ten minutes *)
ExpiredAtTen(created_at, t) == (t - created_at) >= OTP_WINDOW_MINUTES * 60

(* (datetime.now() - created_at).total_seconds() / 60 > 10 *)
Expired(created_at, t) == (t - created_at) > OTP_WINDOW_MINUTES * 60

(* mutant of OtpCheck: the supplied code is not compared *)
OtpCheckNoCompare(found, otp_data, otp, t) ==
    IF ~found THEN "No OTP request found for this voter"
    ELSE IF (t - otp_data.created_at) > OTP_WINDOW_MINUTES * 60 THEN "OTP has expired"
    ELSE ""

(* mutant of OtpCheck: a missing challenge is compared like an empty one *)
OtpCheckNoLookup(found, otp_data, otp, t) ==
    IF otp_data.otp # otp THEN "Invalid OTP"
    ELSE IF (t - otp_data.created_at) > OTP_WINDOW_MINUTES * 60 THEN "OTP has expired"
    ELSE ""

(* mutant of OtpCheck: the age of the challenge is not looked at *)
OtpCheckNoExpiry(found, otp_data, otp, t) ==
    IF ~found THEN "No OTP request found for this voter"
    ELSE IF otp_data.otp # otp THEN "Invalid OTP"
    ELSE ""

(* mutant of OtpCheck: the age is looked at before the code *)
OtpCheckExpiryFirst(found, otp_data, otp, t) ==
    IF ~found THEN "No OTP request found for this voter"
    ELSE IF (t - otp_data.created_at) > OTP_WINDOW_MINUTES * 60 THEN "OTP has expired"
    ELSE IF otp_data.otp # otp THEN "Invalid OTP"
    ELSE ""

(* the checks of verify_otp in their order; "" when the code is accepted *)
OtpCheck(found, otp_data, otp, t) ==
    IF ~found THEN "No OTP request found for this voter"
    ELSE IF otp_data.otp # otp THEN "Invalid OTP"
    ELSE IF Expired(otp_data.created_at, t) THEN "OTP has expired"
    ELSE ""

(* mutant of MarkVerified: a successful check restarts the window *)
MarkVerifiedRestarts(otp_data, t) == [otp_data EXCEPT !.verified = TRUE, !.created_at = t]

(* otp_data['verified'] = True *)
MarkVerified(otp_data, t) == [otp_data EXCEPT !.verified = TRUE]

verify_otp(has_data, aadhar, voter_id, otp) ==
    LET op == "verify_otp" IN
    IF ~has_data THEN Reply(ErrorResp(op, NoKey, 400, "No data provided"))
    ELSE IF aadhar = Empty \/ voter_id = Empty
        THEN Reply(ErrorResp(op, NoKey, 400, "Aadhar and Voter ID are required"))
    ELSE IF otp = Empty THEN Reply(ErrorResp(op, NoKey, 400, "OTP is required"))
    ELSE
        LET voter_key == get_voter_key(aadhar, voter_id)
            found == voter_key \in DOMAIN otp_storage
            otp_data == StoredChallenge(otp_storage, heap, voter_key)
            error == OtpCheck(found, otp_data, otp, now)
        IN  IF error # ""
                THEN Reply([ErrorResp(op, voter_key, 400, error) EXCEPT
                                !.verified = "false",
                                !.pre_verified = WasVerified(voter_key)])
            ELSE
                LET ref == otp_storage[voter_key] IN
                /\ heap' = [heap EXCEPT ![ref] = MarkVerified(otp_data, now)]
                /\ otp_storage' = Put(otp_storage, voter_key, ref)
                /\ hist' = [hist EXCEPT !.otp_ok = @ \cup {voter_key}]
                /\ resp' = [BaseResp(op, voter_key) EXCEPT
                                !.verified = "true",
                                !.pre_verified = WasVerified(voter_key)]
                /\ UNCHANGED <<voter_verification, metadata, now, known_face_encodings, reference_embedding, voter_database, th>>

----------------------------------------------------------------------------
(* facial_auth_server.register_voter, verify_voter_by_face *)

register_voter(db, aadhar, voter_id, face_embedding, image_path, t) ==
    Put(db, get_voter_key(aadhar, voter_id),
        [aadhar |-> MaskAadhar(aadhar),
         voter_id |-> voter_id,
         embedding |-> face_embedding,
         registration_time |-> t,
         image_path |-> image_path])

verify_voter_by_face(db, aadhar, voter_id, face_img) ==
    LET voter_key == get_voter_key(aadhar, voter_id) IN
    IF voter_key \notin DOMAIN db
        THEN [verified |-> FALSE, details |-> TextDetails("Voter not found"), raised |-> FALSE]
    ELSE
        LET voter_record == db[voter_key]
            face_embedding == get_face_embedding(face_img)
            similarity == compute_similarity(face_embedding, voter_record.embedding)
        IN  IF ShapesNotAligned(face_embedding, voter_record.embedding)
                THEN [verified |-> FALSE, details |-> NoDetails, raised |-> TRUE]
            ELSE IF MeetsThreshold(similarity)
                THEN [verified |-> TRUE,
                      details |-> [NoDetails EXCEPT !.kind = "verdict", !.match = TRUE,
                                       !.similarity = similarity,
                                       !.voter_id = voter_record.voter_id],
                      raised |-> FALSE]
            ELSE [verified |-> FALSE,
                  details |-> [NoDetails EXCEPT !.kind = "verdict", !.match = FALSE,
                                   !.similarity = similarity,
                                   !.threshold = "present"],
                  raised |-> FALSE]

NewlyRegistered(voter_id) ==
    [NoDetails EXCEPT !.kind = "verdict", !.match = TRUE, !.similarity = One,
                      !.voter_id = voter_id, !.newly_registered = "true"]

(* the part both verify-voter handlers share: verify_voter_by_face, then the *)
(* first-seen registration, then the response.  provider_ok = FALSE is an    *)
(* exception raised by get_face_embedding; result.raised is the one raised   *)
(* by compute_similarity                                                     *)
VerifyAndRegisterIn(op, aadhar, voter_id, face_img, provider_ok, threads) ==
    LET voter_key == get_voter_key(aadhar, voter_id)
        result == verify_voter_by_face(voter_database, aadhar, voter_id, face_img)
        verdict(verified, details) ==
            [BaseResp(op, voter_key) EXCEPT
                !.verified = IF verified THEN "true" ELSE "false",
                !.details = details,
                !.verification_id = TRUE,
                !.pre_verified = WasVerified(voter_key)]
    IN  IF ~provider_ok
            THEN ReplyIn([ServerError(op, voter_key) EXCEPT
                              !.pre_verified = WasVerified(voter_key)], threads)
        ELSE IF result.raised
            THEN ReplyIn([ShapesError(op, voter_key) EXCEPT
                              !.pre_verified = WasVerified(voter_key)], threads)
        ELSE IF voter_key \notin DOMAIN voter_database /\ ~result.verified
            THEN /\ voter_database' = register_voter(voter_database, aadhar, voter_id,
                                          get_face_embedding(face_img), "temp", now)
                 /\ resp' = verdict(TRUE, NewlyRegistered(voter_id))
                 /\ hist' = [hist EXCEPT !.first_seen = @ + 1]
                 /\ th' = threads
                 /\ UNCHANGED <<voter_verification, metadata, now, known_face_encodings, reference_embedding, otp_storage, heap>>
        ELSE ReplyIn(verdict(result.verified, result.details), threads)

VerifyAndRegister(op, aadhar, voter_id, face_img, provider_ok) ==
    VerifyAndRegisterIn(op, aadhar, voter_id, face_img, provider_ok, th)

----------------------------------------------------------------------------
(* auth_handlers.verify_voter *)

(* mutant of OtpGateOpen: any issued challenge opens the gate *)
OtpGateOpenIfIssued(otp_data) == otp_data.otp # Empty

(* otp_storage.get(voter_key, {}).get('verified', False) *)
OtpGateOpen(otp_data) == otp_data.verified

auth_verify_voter(has_data, aadhar, voter_id, image_data, provider_ok) ==
    LET op == "auth_handlers.verify_voter" IN
    IF ~has_data THEN Reply(ErrorResp(op, NoKey, 400, "No data provided"))
    ELSE IF aadhar = Empty THEN Reply(ErrorResp(op, NoKey, 400, "Aadhar number is required"))
    ELSE IF voter_id = Empty THEN Reply(ErrorResp(op, NoKey, 400, "Voter ID is required"))
    ELSE IF image_data = Empty THEN Reply(ErrorResp(op, NoKey, 400, "Image data is required"))
    ELSE
        LET voter_key == get_voter_key(aadhar, voter_id)
            otp_data == StoredChallenge(otp_storage, heap, voter_key)
            extracted == extract_face_from_image(image_data)
        IN  IF ~OtpGateOpen(otp_data)
                THEN Reply([ErrorResp(op, voter_key, 400, GateError) EXCEPT
                                !.verified = "false",
                                !.required_step = "otp_verification"])
            ELSE IF extracted.error # ""
                THEN Reply([ErrorResp(op, voter_key, 400, extracted.error) EXCEPT
                                !.pre_verified = WasVerified(voter_key)])
            ELSE VerifyAndRegister(op, aadhar, voter_id, extracted.face, provider_ok)

----------------------------------------------------------------------------
(* facial_auth_server.verify_voter *)

server_verify_voter(has_data, aadhar, voter_id, image_data, provider_ok) ==
    LET op == "facial_auth_server.verify_voter" IN
    IF ~has_data THEN Reply(ErrorResp(op, NoKey, 400, "No data provided"))
    ELSE IF aadhar = Empty THEN Reply(ErrorResp(op, NoKey, 400, "Aadhar number is required"))
    ELSE IF voter_id = Empty THEN Reply(ErrorResp(op, NoKey, 400, "Voter ID is required"))
    ELSE IF image_data = Empty THEN Reply(ErrorResp(op, NoKey, 400, "Image data is required"))
    ELSE
        LET voter_key == get_voter_key(aadhar, voter_id)
            extracted == extract_face_from_image(image_data)
        IN  IF extracted.error # ""
                THEN Reply([ErrorResp(op, voter_key, 400, extracted.error) EXCEPT
                                !.pre_verified = WasVerified(voter_key)])
            ELSE VerifyAndRegister(op, aadhar, voter_id, extracted.face, provider_ok)

----------------------------------------------------------------------------
(* facial_auth_server.add_voter *)

(* mutant of add_voter: the registration also drops the voter's challenge *)
AddVoterDroppingChallenge(has_data, aadhar, voter_id, image_data, provider_ok) ==
    LET voter_key == get_voter_key(aadhar, voter_id)
        extracted == extract_face_from_image(image_data)
    IN  /\ has_data /\ provider_ok /\ extracted.error = ""
        /\ voter_database' = register_voter(voter_database, aadhar, voter_id,
                                 get_face_embedding(extracted.face), "images", now)
        /\ otp_storage' = [k \in DOMAIN otp_storage \ {voter_key} |-> otp_storage[k]]
        /\ heap' = Collect(heap, otp_storage', th)
        /\ resp' = [BaseResp("add_voter", voter_key) EXCEPT !.success = "true"]
        /\ UNCHANGED <<voter_verification, metadata, now, known_face_encodings, reference_embedding, th, hist>>

add_voter(has_data, aadhar, voter_id, image_data, provider_ok) ==
    LET op == "add_voter" IN
    IF ~has_data THEN Reply(ErrorResp(op, NoKey, 400, "No data provided"))
    ELSE IF aadhar = Empty THEN Reply(ErrorResp(op, NoKey, 400, "Aadhar number is required"))
    ELSE IF voter_id = Empty THEN Reply(ErrorResp(op, NoKey, 400, "Voter ID is required"))
    ELSE IF image_data = Empty THEN Reply(ErrorResp(op, NoKey, 400, "Image data is required"))
    ELSE
        LET voter_key == get_voter_key(aadhar, voter_id)
            extracted == extract_face_from_image(image_data)
        IN  IF extracted.error # ""
                THEN Reply(ErrorResp(op, voter_key, 400, extracted.error))
            ELSE IF ~provider_ok THEN Reply(ServerError(op, voter_key))
            ELSE
                /\ voter_database' = register_voter(voter_database, aadhar, voter_id,
                                         get_face_embedding(extracted.face), "images", now)
                /\ resp' = [BaseResp(op, voter_key) EXCEPT !.success = "true"]
                /\ UNCHANGED <<voter_verification, metadata, now, known_face_encodings, reference_embedding, otp_storage, heap, th, hist>>

----------------------------------------------------------------------------
(* facial_auth_server.face_match_endpoint *)

Captured == <<"i","m","g">>

(* what requests.post(api_url, ...) gives: no answer (RequestException), an  *)
(* answer with error_message, an answer with or without a confidence         *)
ProviderAnswers ==
    {[NoAnswer EXCEPT !.kind = "request_failed"],
     [NoAnswer EXCEPT !.kind = "error", !.error_message = "NO_FACE_FOUND"],
     [NoAnswer EXCEPT !.kind = "error", !.error_message = "AUTHENTICATION_ERROR"],
     [NoAnswer EXCEPT !.kind = "answer"]}
    \cup {[NoAnswer EXCEPT !.kind = "answer", !.has_confidence = TRUE, !.confidence = c] :
              c \in {74, 75, 90}}

FaceMatchFailed(status, message) ==
    [ErrorResp("face_match_endpoint", NoKey, status, message) EXCEPT !.success = "false"]

(* ref_exists: os.path.exists(reference_image_path), for the image_path of the *)
(* record with this voter_id or the default reference image; creds_ok: the     *)
(* Face++ key and secret are configured                                        *)
face_match_endpoint(has_data, captured_image_b64, user_id, voter_id, ref_exists, creds_ok, faceplusplus_result) ==
    IF ~has_data THEN Reply(FaceMatchFailed(400, "No data provided"))
    ELSE IF captured_image_b64 = Empty
        THEN Reply(FaceMatchFailed(400, "capturedImage is required"))
    ELSE IF user_id = Empty THEN Reply(FaceMatchFailed(400, "userId is required"))
    ELSE IF ~ref_exists THEN Reply(FaceMatchFailed(404, "Reference image not found"))
    ELSE IF ~creds_ok
        THEN Reply(FaceMatchFailed(500, "Server configuration error: Face++ credentials missing."))
    ELSE IF faceplusplus_result.kind = "request_failed"
        THEN Reply(FaceMatchFailed(503, "Failed to connect to Face++ API"))
    ELSE IF faceplusplus_result.kind = "error"
        THEN IF faceplusplus_result.error_message = "NO_FACE_FOUND"
                 THEN Reply([BaseResp("face_match_endpoint", NoKey) EXCEPT
                                !.success = "true",
                                !.details = [NoDetails EXCEPT !.kind = "face_match",
                                                !.match = FALSE, !.confidence = 0,
                                                !.text = "NO_FACE_FOUND"]])
             ELSE Reply(FaceMatchFailed(500, "Face++ API Error"))
    ELSE
        LET confidence == IF faceplusplus_result.has_confidence
                              THEN faceplusplus_result.confidence ELSE 0
            threshold == FACEPLUSPLUS_CONFIDENCE_THRESHOLD
            is_match == confidence >= threshold
        IN  Reply([BaseResp("face_match_endpoint", NoKey) EXCEPT
                      !.success = "true",
                      !.details = [NoDetails EXCEPT !.kind = "face_match",
                                      !.match = is_match, !.confidence = confidence,
                                      !.threshold = "present",
                                      !.api_response = faceplusplus_result]])

----------------------------------------------------------------------------
(* facial_auth_server.list_voters *)

(* voter_key[:8] + "..." *)
Prefix8(voter_key) == <<"prefix8", voter_key>>

list_voters ==
    Reply([BaseResp("list_voters", NoKey) EXCEPT
              !.voters = {[id |-> Prefix8(voter_key),
                           aadhar |-> voter_database[voter_key].aadhar,
                           voter_id |-> voter_database[voter_key].voter_id,
                           registered |-> voter_database[voter_key].registration_time] :
                              voter_key \in DOMAIN voter_database}])

----------------------------------------------------------------------------
(* facial_auth_server.FaceVerification.verify_face and the two routes that  *)
(* use known_face_encodings: register_face and verify_face                  *)

(* face_recognition.face_encodings(rgb_image, face_locations)[0] *)
face_encodings(image) == image.emb

(* the square of face_recognition.face_distance: |known - candidate|^2 *)
DistanceSq(a, b) ==
    LET sum[n \in 0..Len(a)] ==
            IF n = 0 THEN 0 ELSE sum[n - 1] + (a[n] - b[n]) * (a[n] - b[n])
    IN  sum[Len(a)]

(* compare_faces(..., tolerance=0.6): distance <= tolerance *)
compare_faces(known_encoding, face_encoding) ==
    DistanceSq(known_encoding, face_encoding) * FACE_TOLERANCE_DEN * FACE_TOLERANCE_DEN
        <= FACE_TOLERANCE_NUM * FACE_TOLERANCE_NUM

(* the dict the method returns: isMatch, error, and the distance behind the *)
(* confidence (confidence = 1 - distance); an image that cannot be decoded  *)
(* raises inside the method, and the except branch returns the exception's  *)
(* text as the error                                                        *)
FaceVerification_verify_face(image_data, aadhar_number) ==
    LET failed(error) == [isMatch |-> FALSE, error |-> error, has_confidence |-> FALSE,
                          distance_sq |-> 0]
    IN  IF image_data.kind = "undecodable" THEN failed("exception")
        ELSE IF image_data.kind = "noface" THEN failed("No face detected")
        ELSE IF aadhar_number \notin DOMAIN known_face_encodings
            THEN failed("No registered face found")
        ELSE
            LET known_encoding == known_face_encodings[aadhar_number]
                face_encoding == face_encodings(image_data)
            IN  [isMatch |-> compare_faces(known_encoding, face_encoding),
                 error |-> "", has_confidence |-> TRUE,
                 distance_sq |-> DistanceSq(known_encoding, face_encoding)]

(* the route /api/auth/verify-face: jsonify(result), status 200 *)
verify_face(image_data, aadhar_number) ==
    LET op == "verify_face" IN
    IF image_data = Empty \/ aadhar_number = Empty
        THEN Reply(ErrorResp(op, NoKey, 400, "Missing required data"))
    ELSE
        LET result == FaceVerification_verify_face(image_data, aadhar_number) IN
        Reply([BaseResp(op, NoKey) EXCEPT
                  !.error = result.error,
                  !.details = [NoDetails EXCEPT
                                  !.kind = "face_verification",
                                  !.match = result.isMatch,
                                  !.confidence = IF result.has_confidence THEN 1 ELSE 0,
                                  !.distance_sq = result.distance_sq]])

(* a row of voter_verification: INSERT OR REPLACE writes voter_id,          *)
(* mobile_number and face_encoding under the primary key aadhar_number      *)
VoterRow(voter_id, mobile_number, face_encoding) ==
    [voter_id |-> voter_id, mobile_number |-> mobile_number,
     face_encoding |-> face_encoding]

(* the route /api/auth/register-face: the row is written and committed,     *)
(* then the cache entry is assigned                                         *)
register_face(image_data, aadhar_number, voter_id, mobile_number) ==
    LET op == "register_face" IN
    IF image_data = Empty \/ aadhar_number = Empty \/ voter_id = Empty \/ mobile_number = Empty
        THEN Reply(ErrorResp(op, NoKey, 400, "Missing required data"))
    ELSE IF image_data.kind = "undecodable" THEN Reply(ErrorResp(op, NoKey, 500, "exception"))
    ELSE IF image_data.kind = "noface" THEN Reply(ErrorResp(op, NoKey, 400, "No face detected"))
    ELSE
        /\ voter_verification' = Put(voter_verification, aadhar_number,
                                     VoterRow(voter_id, mobile_number,
                                              face_encodings(image_data)))
        /\ known_face_encodings' = Put(known_face_encodings, aadhar_number,
                                       face_encodings(image_data))
        /\ resp' = [BaseResp(op, NoKey) EXCEPT !.success = "true"]
        /\ UNCHANGED <<metadata, now, reference_embedding, otp_storage, heap, voter_database, th, hist>>

----------------------------------------------------------------------------
(* facial_auth_server.load_reference_embedding, compare_face_for_vote *)

(* reference_image: the image at REFERENCE_IMAGE_PATH, Empty when the file  *)
(* is missing or unreadable.  An image in which no face is found is used    *)
(* whole.  The result is the new value of reference_embedding               *)
load_reference_embedding(reference_image, provider_ok) ==
    IF reference_image = Empty \/ ~provider_ok THEN Empty
    ELSE get_face_embedding(reference_image)

compare_face_for_vote(has_data, image_data, reference_image, provider_ok) ==
    LET op == "compare_face_for_vote"
        loaded == IF reference_embedding = Empty
                      THEN load_reference_embedding(reference_image, provider_ok)
                      ELSE reference_embedding
        answer(r) ==
            /\ resp' = r
            /\ reference_embedding' = loaded
            /\ UNCHANGED <<voter_verification, metadata, now, known_face_encodings, otp_storage, heap, voter_database,
                           th, hist>>
    IN  IF ~has_data THEN Reply(ErrorResp(op, NoKey, 400, "No data provided"))
        ELSE IF image_data = Empty THEN Reply(ErrorResp(op, NoKey, 400, "Image data is required"))
        ELSE IF loaded = Empty
            THEN answer(ErrorResp(op, NoKey, 500,
                     "Server configuration error: Reference embedding not available."))
        ELSE
            LET extracted == extract_face_from_image(image_data) IN
            IF extracted.error # ""
                THEN answer([BaseResp(op, NoKey) EXCEPT
                                !.error = extracted.error,
                                !.details = [NoDetails EXCEPT
                                                !.kind = "compare", !.match = FALSE,
                                                !.similarity = [dot |-> 0, nn |-> 1],
                                                !.text = "Could not detect face in the provided image."]])
            ELSE IF ~provider_ok
                THEN answer(ErrorResp(op, NoKey, 500, "Server error during embedding generation"))
            ELSE
                LET live_embedding == get_face_embedding(extracted.face)
                    similarity == compute_similarity(live_embedding, loaded)
                IN  IF ShapesNotAligned(live_embedding, loaded)
                        THEN answer(ShapesError(op, NoKey))
                    ELSE answer([BaseResp(op, NoKey) EXCEPT
                                    !.details = [NoDetails EXCEPT
                                                    !.kind = "compare",
                                                    !.match = MeetsThreshold(similarity),
                                                    !.similarity = similarity,
                                                    !.threshold = "present"]])

----------------------------------------------------------------------------
(* image_manager.py: load_metadata, save_metadata, add_user *)

(* json.load(f), and {} when the file does not parse *)
load_metadata(file) == IF file.valid THEN file.data ELSE EmptyMap

(* json.dump(metadata, f): the file holds the dict *)
save_metadata(data) == [valid |-> TRUE, data |-> data]

(* the file at image_path: missing, one cv2.imread cannot read, a picture   *)
(* in which the cascade finds no face, a picture with a face                *)
ImageFiles == {"missing", "unreadable", "noface", "face"}

(* f"{user_id}_{timestamp}.jpg", the timestamp to the second *)
face_filename(user_id, t) == <<user_id, "_", t, ".jpg">>

(* the entry add_user appends *)
ImageEntry(user_id, t) ==
    [filename |-> face_filename(user_id, t),
     path |-> <<"images/users", user_id, face_filename(user_id, t)>>,
     added |-> t,
     source |-> "imported"]

(* mutant of UpdateMetadata: the user entry is made anew on every call *)
UpdateMetadataAnew(data, user_id, entry, t) ==
    Put(data, user_id, [created |-> t, images |-> <<entry>>])

(* if user_id not in metadata: metadata[user_id] = {created, images: []};   *)
(* metadata[user_id]["images"].append(entry)                                *)
UpdateMetadata(data, user_id, entry, t) ==
    LET with_user == PutIfAbsent(data, user_id, [created |-> t, images |-> <<>>])
    IN  [with_user EXCEPT ![user_id].images = Append(@, entry)]

add_user(user_id, image_path) ==
    LET op == "add_user" IN
    IF image_path \in {"missing", "unreadable", "noface"}
        THEN Reply([BaseResp(op, NoKey) EXCEPT !.success = "false"])
    ELSE
        /\ metadata' = save_metadata(UpdateMetadata(load_metadata(metadata), user_id,
                                                    ImageEntry(user_id, now), now))
        /\ resp' = [BaseResp(op, NoKey) EXCEPT !.success = "true"]
        /\ UNCHANGED <<voter_verification, now, known_face_encodings, reference_embedding, otp_storage, heap, voter_database, th, hist>>

----------------------------------------------------------------------------
(* The sequential specification: requests are served one after another *)

Tick == \E d \in Deltas :
    /\ now + d <= MaxNow
    /\ now' = now + d
    /\ UNCHANGED <<voter_verification, metadata, known_face_encodings, reference_embedding, otp_storage, heap,
                   voter_database, resp, th, hist>>

Init ==
    /\ now = 0
    /\ otp_storage = EmptyMap
    /\ heap = [r \in Refs |-> Free]
    /\ voter_database = EmptyMap
    /\ resp = [op |-> "none", key |-> NoKey, status |-> 200, error |-> "",
               verified |-> "absent", success |-> "absent", found_in_db |-> "absent",
               otp |-> Empty, required_step |-> "", details |-> NoDetails,
               verification_id |-> FALSE, pre_verified |-> FALSE, voters |-> {}]
    /\ th = [t \in Threads |-> Idle]
    /\ known_face_encodings = EmptyMap
    /\ reference_embedding = Empty
    /\ voter_verification = EmptyMap
    /\ metadata = save_metadata(EmptyMap)
    /\ hist = [otp_ok |-> {}, last_issued |-> EmptyMap, first_seen |-> 0, requests |-> 0]

(* the complete requests for the identities V *)
VerifyCredentialsReq(V) ==
    \E i \in V : verify_credentials(TRUE, i.aadhar, i.voter_id, Mobile)

VerifyOtpReq(V) ==
    \E i \in V, otp \in SuppliedCodes : verify_otp(TRUE, i.aadhar, i.voter_id, otp)

AuthVerifyVoterReq(V) ==
    \E i \in V, image_data \in Images, provider_ok \in BOOLEAN :
        auth_verify_voter(TRUE, i.aadhar, i.voter_id, image_data, provider_ok)

ServerVerifyVoterReq(V) ==
    \E i \in V, image_data \in Images, provider_ok \in BOOLEAN :
        server_verify_voter(TRUE, i.aadhar, i.voter_id, image_data, provider_ok)

AddVoterReq(V) ==
    \E i \in V, image_data \in Images, provider_ok \in BOOLEAN :
        add_voter(TRUE, i.aadhar, i.voter_id, image_data, provider_ok)

(* the requests with no body or with a required field left out *)
IdFields(i) == {<<Empty, i.voter_id>>, <<i.aadhar, Empty>>}

MalformedCredentialsReq(V) ==
    \E i \in V :
        \/ verify_credentials(FALSE, i.aadhar, i.voter_id, Mobile)
        \/ verify_credentials(TRUE, i.aadhar, i.voter_id, Empty)
        \/ \E f \in IdFields(i) : verify_credentials(TRUE, f[1], f[2], Mobile)

MalformedOtpReq(V) ==
    \E i \in V :
        \/ verify_otp(FALSE, i.aadhar, i.voter_id, Empty)
        \/ verify_otp(TRUE, i.aadhar, i.voter_id, Empty)
        \/ \E f \in IdFields(i), otp \in SuppliedCodes : verify_otp(TRUE, f[1], f[2], otp)

(* a verify-voter or add-voter request that is complete but for the field *)
(* left out carries this image                                            *)
SomeImage == FaceImage(<<1, 0>>)

MalformedAuthVerifyVoterReq(V) ==
    \E i \in V :
        \/ auth_verify_voter(FALSE, i.aadhar, i.voter_id, SomeImage, TRUE)
        \/ auth_verify_voter(TRUE, i.aadhar, i.voter_id, Empty, TRUE)
        \/ \E f \in IdFields(i) : auth_verify_voter(TRUE, f[1], f[2], SomeImage, TRUE)

MalformedServerVerifyVoterReq(V) ==
    \E i \in V :
        \/ server_verify_voter(FALSE, i.aadhar, i.voter_id, SomeImage, TRUE)
        \/ server_verify_voter(TRUE, i.aadhar, i.voter_id, Empty, TRUE)
        \/ \E f \in IdFields(i) : server_verify_voter(TRUE, f[1], f[2], SomeImage, TRUE)

MalformedAddVoterReq(V) ==
    \E i \in V :
        \/ add_voter(FALSE, i.aadhar, i.voter_id, SomeImage, TRUE)
        \/ add_voter(TRUE, i.aadhar, i.voter_id, Empty, TRUE)
        \/ \E f \in IdFields(i) : add_voter(TRUE, f[1], f[2], SomeImage, TRUE)

(* the Face++ answer such a request would get if it reached the provider *)
SomeAnswer == [NoAnswer EXCEPT !.kind = "answer", !.has_confidence = TRUE, !.confidence = 90]

MalformedFaceMatchReq(V) ==
    \E i \in V :
        \/ face_match_endpoint(FALSE, Captured, i.voter_id, i.voter_id, TRUE, TRUE, SomeAnswer)
        \/ face_match_endpoint(TRUE, Empty, i.voter_id, i.voter_id, TRUE, TRUE, SomeAnswer)
        \/ face_match_endpoint(TRUE, Captured, Empty, i.voter_id, TRUE, TRUE, SomeAnswer)

(* the identity whose requests the sequential specification follows *)
Voters == {ID1}

Next ==
    \/ Tick
    \/ VerifyCredentialsReq(Voters)
    \/ VerifyOtpReq(Voters)
    \/ AuthVerifyVoterReq(Voters)
    \/ ServerVerifyVoterReq(Voters)
    \/ AddVoterReq(Voters)

Spec == Init /\ [][Next]_vars

(* the sequential specification with the malformed requests as well *)
NextInput ==
    \/ Next
    \/ MalformedCredentialsReq(Voters)
    \/ MalformedOtpReq(Voters)
    \/ MalformedAuthVerifyVoterReq(Voters)
    \/ MalformedServerVerifyVoterReq(Voters)
    \/ MalformedAddVoterReq(Voters)
    \/ MalformedFaceMatchReq(Voters)

SpecInput == Init /\ [][NextInput]_vars

----------------------------------------------------------------------------
(* The face specification: sequential requests whose images hold a face,    *)
(* with the embeddings of FaceEmbeddings, and the Face++ comparison         *)

FaceVerifyVoterReq(V) ==
    \E i \in V, e \in FaceEmbeddings :
        auth_verify_voter(TRUE, i.aadhar, i.voter_id, FaceImage(e), TRUE)

FaceAddVoterReq(V) ==
    \E i \in V, e \in FaceEmbeddings :
        add_voter(TRUE, i.aadhar, i.voter_id, FaceImage(e), TRUE)

(* the provider is only asked when the reference image and the credentials *)
(* are there                                                               *)
FaceMatchReq(V) ==
    \E i \in V :
        \/ \E faceplusplus_result \in ProviderAnswers :
               face_match_endpoint(TRUE, Captured, i.voter_id, i.voter_id, TRUE, TRUE,
                                   faceplusplus_result)
        \/ \E ref_exists \in BOOLEAN :
               face_match_endpoint(TRUE, Captured, i.voter_id, i.voter_id, ref_exists,
                                   ~ref_exists, NoAnswer)

NextFace ==
    \/ Tick
    \/ VerifyCredentialsReq(Voters)
    \/ VerifyOtpReq(Voters)
    \/ FaceVerifyVoterReq(Voters)
    \/ FaceAddVoterReq(Voters)
    \/ FaceMatchReq(Voters)

SpecFace == Init /\ [][NextFace]_vars

----------------------------------------------------------------------------
(* The direct specification: the routes of facial_auth_server that need no  *)
(* challenge, served one after another.  The embeddings given to add_voter  *)
(* and verify_voter are of two lengths, so that compute_similarity is also  *)
(* applied to vectors of different lengths; one embedding model gives one   *)
(* length, so a server that keeps its model does not meet that case.        *)

MixedEmbeddings == Embeddings \cup {<<1,1,1,1>>, <<3,4,0,0>>}

DirectVerifyVoterReq(V) ==
    \E i \in V, e \in MixedEmbeddings, provider_ok \in BOOLEAN :
        server_verify_voter(TRUE, i.aadhar, i.voter_id, FaceImage(e), provider_ok)

DirectAddVoterReq(V) ==
    \E i \in V, e \in MixedEmbeddings :
        add_voter(TRUE, i.aadhar, i.voter_id, FaceImage(e), TRUE)

ListVotersReq == list_voters

RegisterFaceReq(V) ==
    \E i \in V, image_data \in Images :
        register_face(image_data, i.aadhar, i.voter_id, Mobile)

VerifyFaceReq(V) ==
    \E i \in V, image_data \in Images : verify_face(image_data, i.aadhar)

(* the image at REFERENCE_IMAGE_PATH *)
ReferenceImages == {Empty, FaceImage(<<1, 0>>)}

CompareFaceReq ==
    \E image_data \in Images, reference_image \in ReferenceImages, provider_ok \in BOOLEAN :
        compare_face_for_vote(TRUE, image_data, reference_image, provider_ok)

NextDirect ==
    \/ DirectVerifyVoterReq(Voters)
    \/ DirectAddVoterReq(Identities)
    \/ ListVotersReq
    \/ RegisterFaceReq(Voters)
    \/ VerifyFaceReq(Voters)
    \/ CompareFaceReq
    \/ FaceMatchReq(Voters)

SpecDirect == Init /\ [][NextDirect]_vars

----------------------------------------------------------------------------
(* The provider specification: the calls to the Groq and Face++ services.   *)
(* get_face_embedding is taken with USE_GROQ_API set, the switch under      *)
(* which it calls get_groq_embedding; a thread that has sent its request to *)
(* Groq waits for requests.post to return while the other threads serve.    *)

(* requests.post(...) with no timeout argument: timeout=None, written as 0 *)
NoTimeout == 0

(* the provider accepts the request and never answers *)
Silent == [NoAnswer EXCEPT !.kind = "silent"]

(* what the Groq service does with a request: nothing, a refused connection, *)
(* an answer that is not a usable embedding, an embedding                    *)
(* a vector of n components, all of them 0 but component h, which is v *)
Vector(n, h, v) == [j \in 1..n |-> IF j = h THEN v ELSE 0]

(* the value under "embedding" in the content of a Groq answer: lists of    *)
(* 127, 128 and 129 numbers (the last component of the longest is not 0),   *)
(* and an empty one                                                         *)
GroqEmbeddingLists ==
    {Empty, Vector(EMBEDDING_DIM - 1, 1, 3), Vector(EMBEDDING_DIM, 1, 3),
     [Vector(EMBEDDING_DIM + 1, 2, 5) EXCEPT ![EMBEDDING_DIM + 1] = 5]}

(* what the Groq service can do: stay silent, refuse the connection, answer *)
(* with a status other than 200, and answer 200 with a content whose        *)
(* "embedding" is a list, is missing (the default []), or is not a list     *)
GroqAnswers ==
    {Silent, [NoAnswer EXCEPT !.kind = "request_failed"], [NoAnswer EXCEPT !.kind = "error"]}
    \cup {[NoAnswer EXCEPT !.kind = "answer", !.embedding = e] : e \in GroqEmbeddingLists}
    \cup {[NoAnswer EXCEPT !.kind = "answer", !.embedding_is_list = FALSE,
                           !.embedding = Vector(EMBEDDING_DIM, 1, 3)]}

(* requests.post: with a timeout a silent provider ends in a RequestException *)
(* after that time; without one the call does not return                      *)
requests_post(answer, timeout) ==
    IF answer.kind # "silent" THEN answer
    ELSE IF timeout = NoTimeout THEN [NoAnswer EXCEPT !.kind = "blocked"]
    ELSE [NoAnswer EXCEPT !.kind = "request_failed"]

(* mutant of ParseEmbedding: a list shorter than 128 is padded with zeros *)
ParseEmbeddingPadded(embedding_is_list, embedding) ==
    IF ~embedding_is_list \/ embedding = Empty THEN Empty
    ELSE [j \in 1..EMBEDDING_DIM |-> IF j <= Len(embedding) THEN embedding[j] ELSE 0]

(* the inner try of get_groq_embedding: the value under "embedding" is      *)
(* refused when it is empty, no list or shorter than 128, and cut to its    *)
(* first 128 components otherwise; Empty stands for the ValueError          *)
ParseEmbedding(embedding_is_list, embedding) ==
    IF embedding = Empty \/ ~embedding_is_list \/ Len(embedding) < EMBEDDING_DIM THEN Empty
    ELSE SubSeq(embedding, 1, EMBEDDING_DIM)

(* np.random.randn(128) divided by its norm: two of the vectors it can be *)
random_embedding == {Vector(EMBEDDING_DIM, 1, 1), Vector(EMBEDDING_DIM, 2, 1)}

(* the embeddings get_groq_embedding can return once requests.post has      *)
(* returned: the one in the answer, and after any failure the fallback; the *)
(* local model is not initialized while USE_GROQ_API is set, so the         *)
(* fallback is a random vector of norm 1                                    *)
get_groq_embedding(face_img, response) ==
    LET embedding == ParseEmbedding(response.embedding_is_list, response.embedding) IN
    IF response.kind = "answer" /\ embedding # Empty THEN {embedding} ELSE random_embedding

(* verify_voter up to the call of requests.post inside get_groq_embedding *)
GroqVerifyVoterCall(t) ==
    \E i \in Voters, answer \in GroqAnswers :
        /\ th[t].pc = "idle"
        /\ th' = [th EXCEPT ![t] = [Idle EXCEPT !.pc = "groq_wait", !.aadhar = i.aadhar,
                                        !.voter_id = i.voter_id, !.image = SomeImage,
                                        !.answer = answer]]
        /\ UNCHANGED <<voter_verification, metadata, now, known_face_encodings, reference_embedding, otp_storage, heap,
                       voter_database, resp, hist>>

(* requests.post returns, and verify_voter runs to its response *)
GroqVerifyVoterReturn(t) ==
    LET response == requests_post(th[t].answer, NoTimeout) IN
    /\ th[t].pc = "groq_wait"
    /\ response.kind # "blocked"
    /\ \E embedding \in get_groq_embedding(th[t].image, response) :
           VerifyAndRegisterIn("facial_auth_server.verify_voter", th[t].aadhar,
                               th[t].voter_id, FaceImage(embedding), TRUE,
                               [th EXCEPT ![t] = Idle])

(* face_match_endpoint with its call requests.post(..., timeout=15) *)
FaceMatchProviderReq(V) ==
    \E i \in V, answer \in ProviderAnswers \cup {Silent} :
        face_match_endpoint(TRUE, Captured, i.voter_id, i.voter_id, TRUE, TRUE,
                            requests_post(answer, FACE_API_TIMEOUT))

NextProvider ==
    \/ \E t \in Threads : GroqVerifyVoterCall(t)
    \/ \E t \in Threads : GroqVerifyVoterReturn(t)
    \/ FaceMatchProviderReq(Voters)

SpecProvider == Init /\ [][NextProvider]_vars

----------------------------------------------------------------------------
(* The concurrent specification: the server's threads serve requests at the *)
(* same time, and a handler is interleaved with the others between its      *)
(* accesses to otp_storage, to a challenge dict, to voter_database and to   *)
(* the clock.  The requests are complete ones.                              *)

Key(t) == get_voter_key(th[t].aadhar, th[t].voter_id)

(* a request is accepted by the first free thread, while the run's budget of *)
(* requests lasts                                                            *)
Accept(t) ==
    /\ th[t].pc = "idle"
    /\ \A u \in Threads : u < t => th[u].pc # "idle"
    /\ hist.requests < MaxRequests
    /\ hist' = [hist EXCEPT !.requests = @ + 1]

(* the handler of thread t returns r *)
Done(t, r) ==
    /\ th' = [th EXCEPT ![t] = Idle]
    /\ resp' = r
    /\ heap' = Collect(heap, otp_storage, th')
    /\ UNCHANGED <<voter_verification, metadata, now, known_face_encodings, reference_embedding, otp_storage, voter_database>>

(* thread t moves on, having written to no store *)
Goto(t, next) ==
    /\ th' = [th EXCEPT ![t] = next]
    /\ heap' = Collect(heap, otp_storage, th')
    /\ UNCHANGED <<voter_verification, metadata, now, known_face_encodings, reference_embedding, otp_storage, voter_database, resp>>

(* verify_credentials: found_in_db = voter_key in voter_database *)
CredLookup(t, i) ==
    /\ Accept(t)
    /\ Goto(t, [Idle EXCEPT !.pc = "vc_store", !.aadhar = i.aadhar, !.voter_id = i.voter_id,
                    !.found = get_voter_key(i.aadhar, i.voter_id) \in DOMAIN voter_database])

(* verify_credentials: otp_storage[voter_key] = {otp, created_at, verified} *)
CredStore(t) ==
    /\ th[t].pc = "vc_store"
    /\ \E otp \in Codes :
        /\ otp_storage' = Put(otp_storage, Key(t), NewRef(heap))
        /\ th' = [th EXCEPT ![t] = Idle]
        /\ heap' = Collect([heap EXCEPT ![NewRef(heap)] = NewChallenge(otp, now)],
                           otp_storage', th')
        /\ resp' = [BaseResp("verify_credentials", Key(t)) EXCEPT
                        !.success = "true",
                        !.found_in_db = IF th[t].found THEN "true" ELSE "false",
                        !.otp = otp,
                        !.pre_verified = WasVerified(Key(t))]
    /\ hist' = [hist EXCEPT !.last_issued = Put(@, Key(t), NewRef(heap))]
    /\ UNCHANGED <<voter_verification, metadata, now, known_face_encodings, reference_embedding, voter_database>>

OtpFailed(voter_key, error) ==
    [ErrorResp("verify_otp", voter_key, 400, error) EXCEPT
        !.verified = "false", !.pre_verified = WasVerified(voter_key)]

(* verify_otp: otp_data = otp_storage.get(voter_key), and the code is compared *)
OtpRead(t, i, otp) ==
    LET voter_key == get_voter_key(i.aadhar, i.voter_id) IN
    /\ Accept(t)
    /\ IF voter_key \notin DOMAIN otp_storage
           THEN Done(t, OtpFailed(voter_key, "No OTP request found for this voter"))
       ELSE IF heap[otp_storage[voter_key]].otp # otp
           THEN Done(t, OtpFailed(voter_key, "Invalid OTP"))
       ELSE Goto(t, [Idle EXCEPT !.pc = "vo_time", !.aadhar = i.aadhar,
                         !.voter_id = i.voter_id, !.otp = otp,
                         !.ref = otp_storage[voter_key]])

(* verify_otp: datetime.now() is read and the age is compared *)
OtpTime(t) ==
    /\ th[t].pc = "vo_time"
    /\ IF Expired(heap[th[t].ref].created_at, now)
           THEN Done(t, OtpFailed(Key(t), "OTP has expired"))
       ELSE Goto(t, [th[t] EXCEPT !.pc = "vo_mark"])
    /\ UNCHANGED hist

(* verify_otp: otp_data['verified'] = True, on the dict that was read *)
OtpMark(t) ==
    /\ th[t].pc = "vo_mark"
    /\ th' = [th EXCEPT ![t].pc = "vo_store"]
    /\ heap' = [heap EXCEPT ![th[t].ref] = MarkVerified(@, now)]
    /\ UNCHANGED <<voter_verification, metadata, now, known_face_encodings, reference_embedding, otp_storage, voter_database, resp, hist>>

(* verify_otp: otp_storage[voter_key] = otp_data *)
OtpStore(t) ==
    /\ th[t].pc = "vo_store"
    /\ otp_storage' = Put(otp_storage, Key(t), th[t].ref)
    /\ th' = [th EXCEPT ![t] = Idle]
    /\ heap' = Collect(heap, otp_storage', th')
    /\ hist' = [hist EXCEPT !.otp_ok = @ \cup {Key(t)}]
    /\ resp' = [BaseResp("verify_otp", Key(t)) EXCEPT
                    !.verified = "true", !.pre_verified = WasVerified(Key(t))]
    /\ UNCHANGED <<voter_verification, metadata, now, known_face_encodings, reference_embedding, voter_database>>

(* auth_handlers.verify_voter: otp_data = otp_storage.get(voter_key, {}) *)
GateRead(t, i, image_data, provider_ok) ==
    LET voter_key == get_voter_key(i.aadhar, i.voter_id) IN
    /\ Accept(t)
    /\ Goto(t, [Idle EXCEPT !.pc = "vv_gate", !.aadhar = i.aadhar, !.voter_id = i.voter_id,
                    !.image = image_data, !.provider_ok = provider_ok,
                    !.ref = IF voter_key \in DOMAIN otp_storage
                                THEN otp_storage[voter_key] ELSE 0])

VoterOp == "auth_handlers.verify_voter"

(* auth_handlers.verify_voter: otp_data.get('verified', False), and then    *)
(* extract_face_from_image, which reads no shared state                      *)
GateTest(t) ==
    LET otp_data == IF th[t].ref = 0 THEN Free ELSE heap[th[t].ref]
        extracted == extract_face_from_image(th[t].image)
    IN  /\ th[t].pc = "vv_gate"
        /\ IF ~OtpGateOpen(otp_data)
               THEN Done(t, [ErrorResp(VoterOp, Key(t), 400, GateError) EXCEPT
                                !.verified = "false",
                                !.required_step = "otp_verification"])
           ELSE IF extracted.error # ""
               THEN Done(t, [ErrorResp(VoterOp, Key(t), 400, extracted.error) EXCEPT
                                !.pre_verified = WasVerified(Key(t))])
           ELSE Goto(t, [th[t] EXCEPT !.pc = "vv_lookup", !.ref = 0])
        /\ UNCHANGED hist

(* verify_voter_by_face: the record is looked up and compared *)
VoterLookup(t) ==
    LET result == verify_voter_by_face(voter_database, th[t].aadhar, th[t].voter_id,
                                       th[t].image)
    IN  /\ th[t].pc = "vv_lookup"
        /\ IF Key(t) \in DOMAIN voter_database /\ ~th[t].provider_ok
               THEN Done(t, [ServerError(VoterOp, Key(t)) EXCEPT
                                !.pre_verified = WasVerified(Key(t))])
           ELSE IF result.raised
               THEN Done(t, [ShapesError(VoterOp, Key(t)) EXCEPT
                                !.pre_verified = WasVerified(Key(t))])
           ELSE Goto(t, [th[t] EXCEPT !.pc = "vv_test", !.verified = result.verified,
                             !.details = result.details])
        /\ UNCHANGED hist

VoterVerdict(t, verified, details) ==
    [BaseResp(VoterOp, Key(t)) EXCEPT
        !.verified = IF verified THEN "true" ELSE "false",
        !.details = details,
        !.verification_id = TRUE,
        !.pre_verified = WasVerified(Key(t))]

(* auth_handlers.verify_voter: voter_key not in voter_database and not      *)
(* verified, and then get_face_embedding for the registration               *)
VoterTest(t) ==
    /\ th[t].pc = "vv_test"
    /\ IF Key(t) \notin DOMAIN voter_database /\ ~th[t].verified
           THEN IF ~th[t].provider_ok
                    THEN Done(t, [ServerError(VoterOp, Key(t)) EXCEPT
                                     !.pre_verified = WasVerified(Key(t))])
                ELSE Goto(t, [th[t] EXCEPT !.pc = "vv_register"])
       ELSE Done(t, VoterVerdict(t, th[t].verified, th[t].details))
    /\ UNCHANGED hist

(* register_voter: voter_database[voter_key] = {...}, and the response *)
VoterRegister(t) ==
    /\ th[t].pc = "vv_register"
    /\ voter_database' = register_voter(voter_database, th[t].aadhar, th[t].voter_id,
                             get_face_embedding(th[t].image), "temp", now)
    /\ hist' = [hist EXCEPT !.first_seen = @ + 1]
    /\ resp' = VoterVerdict(t, TRUE, NewlyRegistered(th[t].voter_id))
    /\ th' = [th EXCEPT ![t] = Idle]
    /\ UNCHANGED <<voter_verification, metadata, now, known_face_encodings, reference_embedding, otp_storage, heap>>

TickConc == Tick

NextConc ==
    \/ TickConc
    \/ \E t \in Threads, i \in Voters : CredLookup(t, i)
    \/ \E t \in Threads : CredStore(t)
    \/ \E t \in Threads, i \in Voters, otp \in Codes : OtpRead(t, i, otp)
    \/ \E t \in Threads : OtpTime(t)
    \/ \E t \in Threads : OtpMark(t)
    \/ \E t \in Threads : OtpStore(t)
    \/ \E t \in Threads, i \in Voters, image_data \in Images, provider_ok \in BOOLEAN :
           GateRead(t, i, image_data, provider_ok)
    \/ \E t \in Threads : GateTest(t)
    \/ \E t \in Threads : VoterLookup(t)
    \/ \E t \in Threads : VoterTest(t)
    \/ \E t \in Threads : VoterRegister(t)

SpecConc == Init /\ [][NextConc]_vars

----------------------------------------------------------------------------
(* Identifiers of any shape.  No handler looks at the form of aadhar or     *)
(* voterId beyond their being non-empty, so these are requests the routes   *)
(* accept: two pairs whose parts contain ':', and aadhar values of 3, 8 and *)
(* 9 characters                                                             *)

IdColonLeft == [aadhar |-> <<"1",":","2">>, voter_id |-> <<"3">>]
IdColonRight == [aadhar |-> <<"1">>, voter_id |-> <<"2",":","3">>]
IdEight == [aadhar |-> <<"1","2","3","4","5","6","7","8">>, voter_id |-> <<"E","8">>]
IdNine == [aadhar |-> <<"1","2","3","4","5","6","7","8","9">>, voter_id |-> <<"N","9">>]
ColonIdentities == {IdColonLeft, IdColonRight}
AnyIdentities == ColonIdentities \cup {IdEight, IdNine}

(* the OTP steps are followed for the two pairs with ':', the registration  *)
(* for all four                                                             *)
IdsCredentialsReq == VerifyCredentialsReq(ColonIdentities)

IdsOtpReq == VerifyOtpReq(ColonIdentities)

IdsAddVoterReq == \E i \in AnyIdentities : add_voter(TRUE, i.aadhar, i.voter_id, SomeImage, TRUE)

NextIds ==
    \/ IdsCredentialsReq
    \/ IdsOtpReq
    \/ IdsAddVoterReq
    \/ ListVotersReq

SpecIds == Init /\ [][NextIds]_vars

----------------------------------------------------------------------------
(* facial_auth_server.api_auth_required, and the routes with the key of the *)
(* request                                                                  *)

(* app.config['GROQ_API_KEY'] with GROQ_API_KEY unset in the environment *)
GROQ_API_KEY == "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"

valid_keys == {GROQ_API_KEY, "dev_facial_auth_key", "voting_system_dev_key"}

(* the key a request carries in X-API-Key or Authorization: none, one that *)
(* is no valid key, and a valid one                                        *)
ApiKeys == {"", "wrong_key", "dev_facial_auth_key"}

(* the decorator: f is the handler it wraps *)
api_auth_required(api_key, op, f) ==
    IF api_key = "" THEN Reply(ErrorResp(op, NoKey, 401, "API key required"))
    ELSE IF api_key \notin valid_keys THEN Reply(ErrorResp(op, NoKey, 401, "Invalid API key"))
    ELSE f

(* the routes that carry @api_auth_required *)
KeyedCredentialsReq(api_key) ==
    api_auth_required(api_key, "verify_credentials", VerifyCredentialsReq(Voters))

KeyedOtpReq(api_key) ==
    api_auth_required(api_key, "verify_otp", VerifyOtpReq(Voters))

KeyedAddVoterReq(api_key) ==
    api_auth_required(api_key, "add_voter",
        \E i \in Voters : add_voter(TRUE, i.aadhar, i.voter_id, SomeImage, TRUE))

KeyedListVotersReq(api_key) ==
    api_auth_required(api_key, "list_voters", ListVotersReq)

(* the routes /api/auth/register-face and /api/auth/verify-face carry no   *)
(* decorator: the key of the request is not looked at                      *)
KeyedRegisterFaceReq(api_key) == RegisterFaceReq(Voters)

KeyedVerifyFaceReq(api_key) == VerifyFaceReq(Voters)

NextAuth ==
    \/ \E api_key \in ApiKeys : KeyedCredentialsReq(api_key)
    \/ \E api_key \in ApiKeys : KeyedOtpReq(api_key)
    \/ \E api_key \in ApiKeys : KeyedAddVoterReq(api_key)
    \/ \E api_key \in ApiKeys : KeyedListVotersReq(api_key)
    \/ \E api_key \in ApiKeys : KeyedRegisterFaceReq(api_key)
    \/ \E api_key \in ApiKeys : KeyedVerifyFaceReq(api_key)

SpecAuth == Init /\ [][NextAuth]_vars

----------------------------------------------------------------------------
(* Two identities served by the two threads *)

(* add_voter: extract_face_from_image and get_face_embedding read no shared *)
(* state; the one step on shared state is register_voter                    *)
AddVoterStep(t, i) ==
    /\ Accept(t)
    /\ voter_database' = register_voter(voter_database, i.aadhar, i.voter_id,
                             get_face_embedding(SomeImage), "images", now)
    /\ resp' = [BaseResp("add_voter", get_voter_key(i.aadhar, i.voter_id)) EXCEPT
                    !.success = "true"]
    /\ UNCHANGED <<voter_verification, metadata, now, known_face_encodings, reference_embedding, otp_storage, heap, th>>

NextPair ==
    \/ \E t \in Threads, i \in Identities : CredLookup(t, i)
    \/ \E t \in Threads : CredStore(t)
    \/ \E t \in Threads, i \in Identities, otp \in Codes : OtpRead(t, i, otp)
    \/ \E t \in Threads : OtpTime(t)
    \/ \E t \in Threads : OtpMark(t)
    \/ \E t \in Threads : OtpStore(t)
    \/ \E t \in Threads, i \in Identities : GateRead(t, i, SomeImage, TRUE)
    \/ \E t \in Threads : GateTest(t)
    \/ \E t \in Threads : VoterLookup(t)
    \/ \E t \in Threads : VoterTest(t)
    \/ \E t \in Threads : VoterRegister(t)
    \/ \E t \in Threads, i \in Identities : AddVoterStep(t, i)

SpecPair == Init /\ [][NextPair]_vars

----------------------------------------------------------------------------
(* register_face on the two threads: the row is committed in one step and   *)
(* the cache entry is assigned in a later one                               *)

(* register_face up to conn.commit() *)
RegisterFaceCommit(t, i, image_data) ==
    LET op == "register_face" IN
    /\ Accept(t)
    /\ IF image_data.kind = "undecodable"
           THEN Done(t, ErrorResp(op, NoKey, 500, "exception"))
       ELSE IF image_data.kind = "noface"
           THEN Done(t, ErrorResp(op, NoKey, 400, "No face detected"))
       ELSE
           /\ voter_verification' = Put(voter_verification, i.aadhar,
                                        VoterRow(i.voter_id, Mobile, face_encodings(image_data)))
           /\ th' = [th EXCEPT ![t] = [Idle EXCEPT !.pc = "rf_cache", !.aadhar = i.aadhar,
                                           !.voter_id = i.voter_id, !.image = image_data]]
           /\ UNCHANGED <<metadata, now, known_face_encodings, reference_embedding, otp_storage, heap, voter_database, resp>>

(* face_verifier.known_face_encodings[aadhar_number] = face_encoding, and   *)
(* the response                                                             *)
RegisterFaceCache(t) ==
    /\ th[t].pc = "rf_cache"
    /\ known_face_encodings' = Put(known_face_encodings, th[t].aadhar,
                                   face_encodings(th[t].image))
    /\ th' = [th EXCEPT ![t] = Idle]
    /\ resp' = [BaseResp("register_face", NoKey) EXCEPT !.success = "true"]
    /\ UNCHANGED <<voter_verification, metadata, now, reference_embedding, otp_storage, heap, voter_database, hist>>

NextRegister ==
    \/ \E t \in Threads, i \in Identities, image_data \in Images :
           RegisterFaceCommit(t, i, image_data)
    \/ \E t \in Threads : RegisterFaceCache(t)

SpecRegister == Init /\ [][NextRegister]_vars

----------------------------------------------------------------------------
(* image_manager.py run from the command line, one command after another *)

UserIds == {"alice", "bob"}

(* python image_manager.py --add-user <user_id> --image <image_path>; the   *)
(* runs followed stop at MaxImages images per user                          *)
AddUserReq ==
    \E user_id \in UserIds, image_path \in ImageFiles :
        /\ user_id \in DOMAIN load_metadata(metadata)
               => Len(load_metadata(metadata)[user_id].images) < MaxImages
        /\ add_user(user_id, image_path)

NextImages ==
    \/ Tick
    \/ AddUserReq

SpecImages == Init /\ [][NextImages]_vars

----------------------------------------------------------------------------
(* Properties *)

KeyOf(i) == get_voter_key(i.aadhar, i.voter_id)
Challenge(k) == StoredChallenge(otp_storage, heap, k)
ChallengeAfter(k) == StoredChallenge(otp_storage', heap', k)
AllIdle == \A t \in Threads : th[t].pc = "idle"

(* C1: auth_handlers.verify_voter, sent with aadhar, voterId and imageData   *)
(* while the key has no challenge or an unverified one, answers the OTP-gate *)
(* error with no verdict, whatever the image, and changes neither            *)
(* voter_database nor otp_storage.                                           *)
C1_GateBeforeFace ==
    [][\A i \in Voters, image_data \in Images, provider_ok \in BOOLEAN :
        ( /\ auth_verify_voter(TRUE, i.aadhar, i.voter_id, image_data, provider_ok)
          /\ ~Challenge(KeyOf(i)).verified )
        => /\ resp'.status = 400
           /\ resp'.error = GateError
           /\ resp'.verified = "false"
           /\ resp'.details = NoDetails
           /\ UNCHANGED <<voter_database, otp_storage, heap>>]_vars

(* a gate error answered while an issued, unverified challenge is stored *)
C1_Witness ==
    /\ resp.op = "auth_handlers.verify_voter"
    /\ resp.error = GateError
    /\ resp.key \in DOMAIN otp_storage
    /\ ~Challenge(resp.key).verified

C3_OneFirstSeenRegistration == hist.first_seen <= 1

(* C4: once a verify_credentials and a verify_otp on the same key have both  *)
(* finished, otp_storage holds the challenge that was issued last.           *)
C4_LatestChallengeStored ==
    AllIdle => \A k \in DOMAIN hist.last_issued :
                   /\ k \in DOMAIN otp_storage
                   /\ otp_storage[k] = hist.last_issued[k]

(* C5: auth_handlers.verify_voter for a key whose challenge is verified but  *)
(* older than the ten-minute window is rejected at the OTP gate.             *)
C5_ExpiredVerifiedIsGated ==
    [][\A i \in Voters, image_data \in Images, provider_ok \in BOOLEAN :
        ( /\ auth_verify_voter(TRUE, i.aadhar, i.voter_id, image_data, provider_ok)
          /\ Challenge(KeyOf(i)).verified
          /\ now - Challenge(KeyOf(i)).created_at > OTP_WINDOW_MINUTES * 60 )
        => resp'.error = GateError]_vars

(* C6: verify_otp with the stored code succeeds at every age up to exactly   *)
(* ten minutes and answers "OTP has expired" from ten minutes and one second *)
(* on.                                                                       *)
C6_ExpiryBoundary ==
    [][\A i \in Voters, otp \in Codes :
        ( /\ verify_otp(TRUE, i.aadhar, i.voter_id, otp)
          /\ KeyOf(i) \in DOMAIN otp_storage
          /\ Challenge(KeyOf(i)).otp = otp )
        => LET age == now - Challenge(KeyOf(i)).created_at IN
           /\ age <= 10 * 60 => (resp'.verified = "true" /\ resp'.error = "")
           /\ age >= 10 * 60 + 1 =>
                  (resp'.verified = "false" /\ resp'.error = "OTP has expired")]_vars

(* the stored code refused at the age of ten minutes and one second *)
C6_Witness ==
    /\ resp.op = "verify_otp"
    /\ resp.error = "OTP has expired"
    /\ resp.key \in DOMAIN otp_storage
    /\ now - Challenge(resp.key).created_at = 10 * 60 + 1

(* C7: verify_credentials for key K leaves under K a challenge with a        *)
(* six-digit code, created_at = now and verified = false in place of the one *)
(* stored before: the gate of verify_voter is closed again, a code issued    *)
(* before that differs from the new one is answered "Invalid OTP", and the   *)
(* flag only turns true again in a successful verify_otp for K.              *)
C7_OverwriteRule ==
    [][\A i \in Voters :
        LET k == KeyOf(i) IN
        /\ verify_credentials(TRUE, i.aadhar, i.voter_id, Mobile) =>
              /\ k \in DOMAIN otp_storage'
              /\ Len(ChallengeAfter(k).otp) = 6
              /\ \A j \in 1..6 : ChallengeAfter(k).otp[j] \in Digits
              /\ ChallengeAfter(k).created_at = now
              /\ ChallengeAfter(k).verified = FALSE
              /\ ~OtpGateOpen(ChallengeAfter(k))
              /\ (k \in DOMAIN otp_storage /\ Challenge(k).otp # ChallengeAfter(k).otp)
                    => OtpCheck(TRUE, ChallengeAfter(k), Challenge(k).otp, now) = "Invalid OTP"
        /\ (~Challenge(k).verified /\ ChallengeAfter(k).verified) =>
              (resp'.op = "verify_otp" /\ resp'.verified = "true" /\ resp'.key = k)]_vars

(* a verified challenge has just been replaced by a new, unverified one *)
C7_Witness ==
    /\ resp.op = "verify_credentials"
    /\ resp.pre_verified
    /\ resp.key \in DOMAIN otp_storage
    /\ ~Challenge(resp.key).verified
    /\ resp.key \in hist.otp_ok

(* C8: verify_otp with the stored code on a challenge that is already        *)
(* verified and still inside the window succeeds again and leaves the stored *)
(* challenge as it was.                                                      *)
C8_IdempotentSuccess ==
    [][\A i \in Voters, otp \in Codes :
        LET k == KeyOf(i) IN
        ( /\ verify_otp(TRUE, i.aadhar, i.voter_id, otp)
          /\ k \in DOMAIN otp_storage
          /\ Challenge(k).verified
          /\ Challenge(k).otp = otp
          /\ now - Challenge(k).created_at <= 10 * 60 )
        => /\ resp'.verified = "true"
           /\ resp'.status = 200
           /\ ChallengeAfter(k) = Challenge(k)
           /\ otp_storage' = otp_storage]_vars

(* a second successful check of a challenge, made later than its issue *)
C8_Witness ==
    /\ resp.op = "verify_otp"
    /\ resp.verified = "true"
    /\ resp.pre_verified
    /\ now > Challenge(resp.key).created_at

(* C9: verify_otp with a code that differs from the stored one answers       *)
(* "Invalid OTP" and leaves the challenge as it was; and verify_otp with the *)
(* stored code inside the window succeeds also right after a wrong one.      *)
C9_WrongCodeNoTransition ==
    [][\A i \in Voters, otp \in SuppliedCodes :
        LET k == KeyOf(i) IN
        /\ ( /\ verify_otp(TRUE, i.aadhar, i.voter_id, otp)
             /\ k \in DOMAIN otp_storage
             /\ Challenge(k).otp # otp )
           => /\ resp'.error = "Invalid OTP"
              /\ resp'.verified = "false"
              /\ UNCHANGED <<otp_storage, heap, voter_database>>
        /\ ( /\ verify_otp(TRUE, i.aadhar, i.voter_id, otp)
             /\ resp.op = "verify_otp" /\ resp.error = "Invalid OTP" /\ resp.key = k
             /\ k \in DOMAIN otp_storage
             /\ Challenge(k).otp = otp
             /\ now - Challenge(k).created_at <= 10 * 60 )
           => resp'.verified = "true"]_vars

(* a wrong code answered while the stored challenge is verified *)
C9_Witness ==
    /\ resp.op = "verify_otp"
    /\ resp.error = "Invalid OTP"
    /\ resp.key \in DOMAIN otp_storage
    /\ Challenge(resp.key).verified

(* C10: verify_otp for a key with no stored challenge answers "No OTP        *)
(* request found for this voter" with verified=false, creates no challenge   *)
(* and changes neither store.                                                *)
C10_NoChallengeFound ==
    [][\A i \in Voters, otp \in SuppliedCodes :
        ( /\ verify_otp(TRUE, i.aadhar, i.voter_id, otp)
          /\ KeyOf(i) \notin DOMAIN otp_storage )
        => /\ resp'.status = 400
           /\ resp'.error = "No OTP request found for this voter"
           /\ resp'.verified = "false"
           /\ KeyOf(i) \notin DOMAIN otp_storage'
           /\ UNCHANGED <<otp_storage, heap, voter_database>>]_vars

(* the answer given for a key that has a voter record and no challenge *)
C10_Witness ==
    /\ resp.op = "verify_otp"
    /\ resp.error = "No OTP request found for this voter"
    /\ resp.key \notin DOMAIN otp_storage
    /\ resp.key \in DOMAIN voter_database

(* C11: once the challenge stored for a key is older than the window, every  *)
(* verify_otp for the key, whatever the code, fails and leaves the challenge *)
(* as it was; the challenge stays expired and its flag is not newly set      *)
(* until verify_credentials stores a new challenge for the key.              *)
C11_ExpiredIsTerminal ==
    [][\A i \in Voters :
        LET k == KeyOf(i) IN
        ( /\ k \in DOMAIN otp_storage
          /\ now - Challenge(k).created_at > 10 * 60 )
        => /\ \A otp \in SuppliedCodes :
                 verify_otp(TRUE, i.aadhar, i.voter_id, otp)
                 => /\ resp'.verified = "false"
                    /\ resp'.status = 400
                    /\ ChallengeAfter(k) = Challenge(k)
           /\ \/ /\ ChallengeAfter(k) = Challenge(k)
                 /\ now' - ChallengeAfter(k).created_at > 10 * 60
              \/ /\ resp'.op = "verify_credentials"
                 /\ resp'.key = k
                 /\ ChallengeAfter(k).created_at = now
                 /\ ~ChallengeAfter(k).verified]_vars

(* the stored code refused for an unverified challenge twenty minutes old *)
C11_Witness ==
    /\ resp.op = "verify_otp"
    /\ resp.error = "OTP has expired"
    /\ resp.key \in DOMAIN otp_storage
    /\ ~Challenge(resp.key).verified
    /\ now - Challenge(resp.key).created_at >= 20 * 60

(* C12: after auth_handlers.verify_voter has returned a verdict for a key,   *)
(* the next auth_handlers.verify_voter for the key, sent with no new         *)
(* verify_credentials and verify_otp in between, is rejected at the OTP gate.*)
C12_ChallengeConsumed ==
    [][\A i \in Voters, image_data \in Images, provider_ok \in BOOLEAN :
        ( /\ resp.op = "auth_handlers.verify_voter"
          /\ resp.verification_id
          /\ resp.key = KeyOf(i)
          /\ auth_verify_voter(TRUE, i.aadhar, i.voter_id, image_data, provider_ok) )
        => resp'.error = GateError]_vars

(* C13: a voter record, once stored under a key, is never replaced: no step  *)
(* changes it, and an add_voter for a key that has one fails.                *)
C13_NoSilentOverwrite ==
    [][\A i \in Voters :
        LET k == KeyOf(i) IN
        k \in DOMAIN voter_database
        => /\ k \in DOMAIN voter_database'
           /\ voter_database'[k] = voter_database[k]
           /\ \A image_data \in Images, provider_ok \in BOOLEAN :
                 add_voter(TRUE, i.aadhar, i.voter_id, image_data, provider_ok)
                 => resp'.success # "true"]_vars

C17_FailureIsAnError ==
    [][\A i \in Voters, image_data \in Images, provider_ok \in BOOLEAN :
        ( /\ \/ /\ auth_verify_voter(TRUE, i.aadhar, i.voter_id, image_data, provider_ok)
                /\ Challenge(KeyOf(i)).verified
             \/ server_verify_voter(TRUE, i.aadhar, i.voter_id, image_data, provider_ok)
          /\ (image_data.kind # "face" \/ ~provider_ok) )
        => /\ resp'.status \in {400, 500}
           /\ resp'.error # ""
           /\ resp'.verified = "absent"
           /\ resp'.details = NoDetails
           /\ UNCHANGED <<voter_database, otp_storage, heap>>]_vars

(* a provider failure on the first-seen path: the key is OTP-verified, the   *)
(* answer is the server error and there is no record                         *)
C17_Witness ==
    /\ resp.op = "auth_handlers.verify_voter"
    /\ resp.status = 500
    /\ resp.pre_verified
    /\ resp.key \notin DOMAIN voter_database

(* C20: every verdict of verify_voter carries match, similarity, the         *)
(* threshold used and a verification_id.                                     *)
C20_VerdictFields ==
    ( /\ resp.op \in {"auth_handlers.verify_voter", "facial_auth_server.verify_voter"}
      /\ resp.details.kind = "verdict" )
    => /\ resp.details.match \in BOOLEAN
       /\ resp.details.similarity.nn >= 0
       /\ resp.details.threshold = "present"
       /\ resp.verification_id

C18_NoSilentDefault ==
    ( /\ resp.op = "face_match_endpoint"
      /\ resp.details.api_response.kind = "answer"
      /\ ~resp.details.api_response.has_confidence )
    => ~(resp.success = "true" /\ resp.details.confidence = 0 /\ ~resp.details.match)

(* C19: a verification in which the captured or the stored embedding is the  *)
(* zero vector ends in an error: no Match or NoMatch verdict is computed     *)
(* from an undefined similarity.                                             *)
C19_DegenerateIsAnError ==
    ( /\ resp.op \in {"auth_handlers.verify_voter", "facial_auth_server.verify_voter"}
      /\ resp.details.kind = "verdict"
      /\ resp.details.newly_registered # "true" )
    => resp.details.similarity.nn > 0

(* C22: the response of verify-credentials does not carry the issued code:   *)
(* the handler reads no development flag, so the code would have to be       *)
(* absent from every response.                                               *)
C22_OtpNotInResponse ==
    (resp.op = "verify_credentials" /\ resp.success = "true") => resp.otp = Empty

(* C24: the two stores are independent.  A verify_credentials or verify_otp  *)
(* request leaves every voter_database record as it was, and a verify_voter  *)
(* (either entry point, with its first-seen register_voter) or add_voter     *)
(* request leaves otp_storage and every challenge as they were.              *)
C24_StoresIndependent ==
    [][ /\ (resp'.op \in {"verify_credentials", "verify_otp"})
              => voter_database' = voter_database
        /\ (resp'.op \in {"auth_handlers.verify_voter",
                           "facial_auth_server.verify_voter", "add_voter"})
              => (otp_storage' = otp_storage /\ heap' = heap) ]_vars

(* add_voter has registered a voter who holds a challenge, and the challenge *)
(* is still there                                                            *)
C24_Witness ==
    /\ resp.op = "add_voter"
    /\ resp.success = "true"
    /\ resp.key \in DOMAIN voter_database
    /\ resp.key \in DOMAIN otp_storage
    /\ Challenge(resp.key).otp # Empty

C26_SimilaritySymmetric ==
    \A k \in DOMAIN voter_database, e \in FaceEmbeddings :
        LET s == voter_database[k].embedding IN
        (Len(e) = Len(s) /\ NormSq(e) > 0 /\ NormSq(s) > 0)
            => /\ compute_similarity(e, s) = compute_similarity(s, e)
               /\ MeetsThreshold(compute_similarity(e, s))
                      <=> MeetsThreshold(compute_similarity(s, e))

(* a capture has been scored against a stored embedding of another direction *)
(* and another norm                                                          *)
C26_Witness ==
    /\ resp.op = "auth_handlers.verify_voter"
    /\ resp.details.kind = "verdict"
    /\ resp.details.newly_registered # "true"
    /\ resp.key \in DOMAIN voter_database
    /\ NormSq(voter_database[resp.key].embedding) > 1
    /\ resp.details.similarity.nn > 0
    /\ resp.details.similarity.dot * resp.details.similarity.dot
           # resp.details.similarity.nn
    /\ \E e \in FaceEmbeddings :
           /\ NormSq(e) # NormSq(voter_database[resp.key].embedding)
           /\ resp.details.similarity
                  = compute_similarity(e, voter_database[resp.key].embedding)

(* C28: a verify_credentials, verify_otp or verify_voter request with no     *)
(* body or with a required field left out is answered with status 400 and    *)
(* the message naming what is missing, carries no success, verdict or code,  *)
(* and leaves otp_storage, every challenge and voter_database as they were.  *)
(* (The response names its handler, which is looked at first.)               *)
C28_MissingFieldRejected ==
    [][ ( \/ resp'.op = "verify_credentials" /\ MalformedCredentialsReq(Voters)
          \/ resp'.op = "verify_otp" /\ MalformedOtpReq(Voters)
          \/ resp'.op = "auth_handlers.verify_voter" /\ MalformedAuthVerifyVoterReq(Voters)
          \/ resp'.op = "facial_auth_server.verify_voter"
                 /\ MalformedServerVerifyVoterReq(Voters) )
        => /\ resp'.status = 400
           /\ resp'.error \in {"No data provided", "Aadhar number is required",
                                "Voter ID is required", "Mobile number is required",
                                "Aadhar and Voter ID are required", "OTP is required",
                                "Image data is required"}
           /\ resp'.success = "absent"
           /\ resp'.verified = "absent"
           /\ resp'.otp = Empty
           /\ resp'.details = NoDetails
           /\ otp_storage' = otp_storage
           /\ heap' = heap
           /\ voter_database' = voter_database ]_vars

(* a verify_credentials without the mobile number was refused while the      *)
(* voter's verified challenge and record were stored                         *)
C28_Witness ==
    /\ resp.op = "verify_credentials"
    /\ resp.status = 400
    /\ resp.error = "Mobile number is required"
    /\ KeyOf(ID1) \in DOMAIN otp_storage
    /\ Challenge(KeyOf(ID1)).verified
    /\ KeyOf(ID1) \in DOMAIN voter_database

(* C30: a face-match request for a voter id that no record of voter_database *)
(* has is never answered with a positive verdict (isMatch true): the        *)
(* capture is not compared with a default reference image.                   *)
C30_PositiveOnlyForRecord ==
    [][ ( /\ resp'.op = "face_match_endpoint"
          /\ \A k \in DOMAIN voter_database, i \in Voters :
                 voter_database[k].voter_id # i.voter_id
          /\ FaceMatchReq(Voters) )
        => ~(resp'.success = "true" /\ resp'.details.match) ]_vars

C23_ListIsRedacted ==
    resp.op = "list_voters"
        => \A v \in resp.voters, i \in Identities :
               v.aadhar # i.aadhar /\ v.voter_id # i.voter_id

(* C21: a response with success status that carries an error and a negative  *)
(* verdict is the answer to "no face detected" of compare_face_for_vote or   *)
(* of face_match_endpoint, and to no other failure.                          *)
C21_OnlyNoFaceIsSoftFailure ==
    ( /\ resp.status = 200
      /\ resp.details.kind \in {"face_verification", "compare", "face_match"}
      /\ ~resp.details.match
      /\ (resp.error # "" \/ resp.details.text # "") )
    => \/ resp.op = "compare_face_for_vote" /\ resp.error = "No face detected in the image"
       \/ resp.op = "face_match_endpoint" /\ resp.details.text = "NO_FACE_FOUND"

(* C27: every call to a provider is bounded: a request that waits for the    *)
(* Groq service can always go on to its response, whatever the service       *)
(* does, a service that never answers included.                              *)
C27_ProviderCallsBounded ==
    \A t \in Threads : th[t].pc = "groq_wait" => ENABLED GroqVerifyVoterReturn(t)

(* C33: verify_otp checks in the order not found, mismatch, expired: a wrong *)
(* code for an expired challenge is answered "Invalid OTP", and "OTP has     *)
(* expired" is answered only to a caller who supplied the stored code.       *)
C33_ChecksInOrder ==
    [][\A i \in Voters, otp \in SuppliedCodes :
        LET k == KeyOf(i) IN
        verify_otp(TRUE, i.aadhar, i.voter_id, otp)
            => /\ k \notin DOMAIN otp_storage
                    => resp'.error = "No OTP request found for this voter"
               /\ ( /\ k \in DOMAIN otp_storage
                    /\ Challenge(k).otp # otp
                    /\ now - Challenge(k).created_at > 10 * 60 )
                    => resp'.error = "Invalid OTP"
               /\ resp'.error = "OTP has expired"
                    => /\ k \in DOMAIN otp_storage
                       /\ Challenge(k).otp = otp
                       /\ now - Challenge(k).created_at > 10 * 60]_vars

(* a wrong code answered "Invalid OTP" while the stored challenge is older   *)
(* than the window                                                           *)
C33_Witness ==
    /\ resp.op = "verify_otp"
    /\ resp.error = "Invalid OTP"
    /\ resp.key \in DOMAIN otp_storage
    /\ now - Challenge(resp.key).created_at > 10 * 60

(* C34: distinct (aadhar, voter_id) pairs never address the same state: a    *)
(* verify_credentials or an add_voter for one pair leaves the challenge and  *)
(* the record of every other pair as they were.                              *)
C34_DistinctPairsDistinctState ==
    [][\A i, j \in AnyIdentities :
        ( /\ i # j
          /\ \/ verify_credentials(TRUE, i.aadhar, i.voter_id, Mobile)
             \/ add_voter(TRUE, i.aadhar, i.voter_id, SomeImage, TRUE) )
        => /\ ChallengeAfter(KeyOf(j)) = Challenge(KeyOf(j))
           /\ (KeyOf(j) \in DOMAIN otp_storage') = (KeyOf(j) \in DOMAIN otp_storage)
           /\ (KeyOf(j) \in DOMAIN voter_database') = (KeyOf(j) \in DOMAIN voter_database)]_vars

(* C35: the masked aadhar of a record hides at least one character of the    *)
(* identifier it was made from, whatever the length of the identifier.       *)
C35_MaskHidesSomething ==
    \A i \in AnyIdentities :
        ( /\ KeyOf(i) \in DOMAIN voter_database
          /\ voter_database[KeyOf(i)].voter_id = i.voter_id )
        => Len(voter_database[KeyOf(i)].aadhar) - 4 < Len(i.aadhar)

(* C37: whenever get_groq_embedding returns the embedding of the remote      *)
(* answer, it has exactly 128 components: it is the first 128 components of  *)
(* a list of at least 128, and a shorter list, a missing one and a value     *)
(* that is no list are never returned, padded or not.  The components the    *)
(* service sends are 0, 3 and 5 and those of the fallback 0 and 1, so an     *)
(* embedding outside random_embedding is one taken from the answer.          *)
C37_RemoteEmbeddingHas128 ==
    [][\A t \in Threads :
        (th[t].pc = "groq_wait" /\ th'[t].pc = "idle" /\ GroqVerifyVoterReturn(t))
        => LET answer == th[t].answer
               k == get_voter_key(th[t].aadhar, th[t].voter_id)
               returned == get_groq_embedding(th[t].image, answer)
           IN  /\ \A v \in returned :
                    /\ Len(v) = 128
                    /\ v \notin random_embedding
                        => /\ answer.kind = "answer"
                           /\ answer.embedding_is_list
                           /\ Len(answer.embedding) >= 128
                           /\ \A j \in 1..128 : v[j] = answer.embedding[j]
               /\ (k \notin DOMAIN voter_database /\ k \in DOMAIN voter_database')
                    => voter_database'[k].embedding \in returned]_vars

(* a voter registered with the first 128 components of an answer that was    *)
(* longer than 128                                                           *)
C37_Witness ==
    /\ resp.op = "facial_auth_server.verify_voter"
    /\ resp.key \in DOMAIN voter_database
    /\ resp.details.newly_registered = "true"
    /\ Len(voter_database[resp.key].embedding) = 128
    /\ \E j \in 1..2 : voter_database[resp.key].embedding[j] = 5

(* C31: every handler that reads or changes the enrollment or the OTP state  *)
(* is behind api_auth_required: a request without a valid API key is         *)
(* answered 401 and leaves voter_database, otp_storage, the cache            *)
(* known_face_encodings and the table voter_verification as they were.       *)
C31_NoKeyNoEffect ==
    [][\A api_key \in ApiKeys \ valid_keys :
        ( \/ KeyedCredentialsReq(api_key)
          \/ KeyedOtpReq(api_key)
          \/ KeyedAddVoterReq(api_key)
          \/ KeyedListVotersReq(api_key)
          \/ KeyedRegisterFaceReq(api_key)
          \/ KeyedVerifyFaceReq(api_key) )
        => /\ resp'.status = 401
           /\ UNCHANGED <<voter_database, otp_storage, heap, known_face_encodings,
                          voter_verification>>]_vars

(* the challenge and the record of every key but k are left as they were *)
FrameExcept(k) ==
    \A x \in Keys \ {k} :
        /\ (x \in DOMAIN otp_storage') = (x \in DOMAIN otp_storage)
        /\ ChallengeAfter(x) = Challenge(x)
        /\ (x \in DOMAIN voter_database') = (x \in DOMAIN voter_database)
        /\ x \in DOMAIN voter_database => voter_database'[x] = voter_database[x]

(* C32: operations on one key never affect another: every step of a          *)
(* verify_credentials, verify_otp, verify_voter or add_voter for key K       *)
(* leaves the challenge and the record of every other key unchanged,         *)
(* however the requests of the two threads interleave.                       *)
C32_OtherKeysUntouched ==
    [][ /\ \A t \in Threads, i \in Identities :
            ( \/ CredLookup(t, i)
              \/ \E otp \in Codes : OtpRead(t, i, otp)
              \/ GateRead(t, i, SomeImage, TRUE)
              \/ AddVoterStep(t, i) )
            => FrameExcept(KeyOf(i))
        /\ \A t \in Threads :
            ( /\ th[t].pc # "idle"
              /\ \/ CredStore(t) \/ OtpTime(t) \/ OtpMark(t) \/ OtpStore(t)
                 \/ GateTest(t) \/ VoterLookup(t) \/ VoterTest(t) \/ VoterRegister(t) )
            => FrameExcept(Key(t))]_vars

(* the two threads are in the middle of requests for different keys that    *)
(* both have a challenge, each about to write to otp_storage                 *)
C32_Witness ==
    /\ th[1].pc \in {"vc_store", "vo_store"}
    /\ th[2].pc \in {"vc_store", "vo_store"}
    /\ Key(1) # Key(2)
    /\ {Key(1), Key(2)} \subseteq DOMAIN otp_storage

(* C36: the cache known_face_encodings agrees with the table                 *)
(* voter_verification: when no register_face is in progress, the cached      *)
(* encoding of each aadhar number is the face_encoding of its row, and an    *)
(* aadhar number is cached exactly when it has a row.                        *)
C36_CacheAgreesWithTable ==
    AllIdle
        => /\ DOMAIN known_face_encodings = DOMAIN voter_verification
           /\ \A a \in DOMAIN voter_verification :
                  known_face_encodings[a] = voter_verification[a].face_encoding

(* C38: a successful add_user(user_id, image) appends exactly one entry to   *)
(* the images of user_id, creates the user entry with its created time only  *)
(* when the user was absent, and leaves the user's earlier entries, an       *)
(* existing created time and every other user unchanged; an add_user of a    *)
(* missing file, an unreadable image or an image without a face returns      *)
(* False and leaves the metadata unchanged.                                  *)
C38_AddUserFrame ==
    [][\A user_id \in UserIds, image_path \in ImageFiles :
        add_user(user_id, image_path)
        => LET before == metadata.data
               after == metadata'.data
               old_images == IF user_id \in DOMAIN before THEN before[user_id].images
                             ELSE <<>>
           IN  IF image_path = "face"
                   THEN /\ resp'.success = "true"
                        /\ metadata'.valid
                        /\ DOMAIN after = DOMAIN before \cup {user_id}
                        /\ Len(after[user_id].images) = Len(old_images) + 1
                        /\ SubSeq(after[user_id].images, 1, Len(old_images)) = old_images
                        /\ after[user_id].images[Len(old_images) + 1].source = "imported"
                        /\ after[user_id].created = IF user_id \in DOMAIN before
                                                       THEN before[user_id].created
                                                       ELSE now
                        /\ \A other \in DOMAIN before \ {user_id} :
                               after[other] = before[other]
               ELSE /\ resp'.success = "false"
                    /\ metadata' = metadata]_vars

(* a second image added to a user at a later time than the first, while the  *)
(* other user has an entry                                                   *)
C38_Witness ==
    /\ resp.op = "add_user"
    /\ resp.success = "true"
    /\ DOMAIN metadata.data = UserIds
    /\ \E user_id \in UserIds :
           /\ Len(metadata.data[user_id].images) = 2
           /\ metadata.data[user_id].images[2].added > metadata.data[user_id].created

====
